---- MODULE Spec2Model ----
(***************************************************************************)
(* PLRailMap: the streaming OSM loader (scripts/loader.py) and the rule    *)
(* engine (scripts/verify.py), with the older single-file program          *)
(* (verify.py) beside them.  A document is delivered to the handler as     *)
(* SAX events; the main program then runs the rule groups one by one.      *)
(*                                                                         *)
(* Python values are modelled as follows.                                  *)
(*   str            a TLA+ string (SubSeq and Len give its characters)     *)
(*   Optional[x]    <<>> for None, <<x>> for a value                       *)
(*   Dict[str,str]  a function from the keys present to their values       *)
(*   a dict that is iterated   a sequence of [key, val] entries in         *)
(*                  insertion order                                        *)
(*   float          [nan |-> BOOLEAN, val |-> Int]; coordinates are in     *)
(*                  units of 1e-4 degree, distances in millimetres         *)
(***************************************************************************)
EXTENDS Integers, Sequences, FiniteSets, TLC

VARIABLES
    program,     \* which program runs: "scripts" (scripts/verify.py) or "legacy" (verify.py)
    open,        \* the parser: the element open under the root, <<>> when none is;
                 \* when a handler call raises, the element the call was made for
    nchildren,   \* the parser: the child elements (tag, nd) read so far
    document,    \* the parser: the top-level elements closed so far, as read from the file
    handler,     \* the OSMLoader instance and its fields
    pc,          \* "parsing", "aborted", "run", "exited"; "call", "returned" for a direct call
    stations_map,\* main's stations_map (<<>> until built)
    ok,          \* main's ok
    report,      \* what the rule groups printed so far: one entry per group that ran
    exit_code,   \* <<>> while the process runs, <<c>> once it ended with status c
    traceback,   \* the exception that ended the process: "none", "ValueError", "KeyError"
    hints_in,    \* argument of a direct call of _validate_station_direction_hints
    hints_out,   \* <<>> before the call, <<issues>> after it
    lookup_by_pkpplk,   \* compare_stops.py: stations_by_pkpplk (<<>> until built)
    lookup_by_ibnr,     \* compare_stops.py: stations_by_ibnr (<<>> until built)
    rerun        \* a second run of the rule groups, in any order and overlapping:
                 \* the groups begun, the result of each group ended, and its ok

vars == <<program, open, nchildren, document, handler, pc, stations_map, ok,
          report, exit_code, traceback, hints_in, hints_out,
          lookup_by_pkpplk, lookup_by_ibnr, rerun>>

(***************************************************************************)
(* Bounds of the model.                                                    *)
(***************************************************************************)
MaxElements == 3     \* top-level elements of a streamed document
MaxChildren == 5     \* child elements (tag, nd) of a streamed document

(***************************************************************************)
(* Python built-ins.                                                       *)
(***************************************************************************)
None == <<>>
Some(x) == <<x>>

\* dict.get(key)
get(d, key) == IF key \in DOMAIN d THEN Some(d[key]) ELSE None

\* dict.get(key, default)
get_or(d, key, default) == IF key \in DOMAIN d THEN d[key] ELSE default

\* d[key] = value
set_item(d, key, value) == [k \in DOMAIN d \cup {key} |-> IF k = key THEN value ELSE d[k]]

\* str.startswith(prefix)
startswith(s, prefix) ==
    Len(s) >= Len(prefix) /\ SubSeq(s, 1, Len(prefix)) = prefix

\* the index of the first occurrence of the one-character sep in s at or after i, 0 if none
RECURSIVE find_from(_, _, _)
find_from(s, sep, i) ==
    IF i > Len(s) THEN 0
    ELSE IF SubSeq(s, i, i) = sep THEN i
    ELSE find_from(s, sep, i + 1)

\* str.split(sep) for a one-character sep
RECURSIVE split(_, _)
split(s, sep) ==
    LET i == find_from(s, sep, 1) IN
    IF i = 0 THEN <<s>>
    ELSE <<SubSeq(s, 1, i - 1)>> \o split(SubSeq(s, i + 1, Len(s)), sep)

\* ", ".join / ";".join
RECURSIVE join(_, _)
join(sep, xs) ==
    IF xs = <<>> THEN ""
    ELSE IF Len(xs) = 1 THEN xs[1]
    ELSE xs[1] \o sep \o join(sep, Tail(xs))

Range(xs) == {xs[i] : i \in DOMAIN xs}

\* a float and the not-a-number float
F(v) == [nan |-> FALSE, val |-> v]
NaN == [nan |-> TRUE, val |-> 0]

Digit == [c \in {"0", "1", "2", "3", "4", "5", "6", "7", "8", "9"} |->
            CASE c = "0" -> 0 [] c = "1" -> 1 [] c = "2" -> 2 [] c = "3" -> 3
              [] c = "4" -> 4 [] c = "5" -> 5 [] c = "6" -> 6 [] c = "7" -> 7
              [] c = "8" -> 8 [] c = "9" -> 9]

\* the digits of s read as a decimal number
RECURSIVE digits_value(_)
digits_value(s) ==
    IF s = "" THEN 0
    ELSE 10 * digits_value(SubSeq(s, 1, Len(s) - 1)) + Digit[SubSeq(s, Len(s), Len(s))]

\* float(s) for "nan" and for decimals written with four fractional digits,
\* in units of 1e-4
float(s) ==
    IF s = "nan" THEN NaN
    ELSE LET dot == find_from(s, ".", 1) IN
         F(digits_value(SubSeq(s, 1, dot - 1)) * 10000
           + digits_value(SubSeq(s, dot + 1, Len(s))))

(***************************************************************************)
(* scripts/util.py                                                         *)
(***************************************************************************)
osm_list(value) == IF value # "" THEN split(value, ";") ELSE <<>>

\* dict.setdefault(key, []) on an insertion-ordered dict of lists
setdefault(d, key) ==
    IF \E i \in DOMAIN d : d[i].key = key THEN d
    ELSE Append(d, [key |-> key, val |-> <<>>])

\* d.setdefault(key, []).append(x)
setdefault_append(d, key, x) ==
    LET e == setdefault(d, key) IN
    [i \in DOMAIN e |-> IF e[i].key = key
                         THEN [key |-> key, val |-> Append(e[i].val, x)]
                         ELSE e[i]]

\* group_by(iterable, key=lambda i: i.<field>)
group_by(iterable, field) ==
    LET grouped[n \in 0..Len(iterable)] ==
            IF n = 0 THEN <<>>
            ELSE setdefault_append(grouped[n - 1], iterable[n][field], iterable[n])
    IN grouped[Len(iterable)]

(***************************************************************************)
(* scripts/loader.py: OSMLoader.  A handler call returns the handler as    *)
(* the call left it and the exception it raised, if any.                   *)
(***************************************************************************)
Returned(self) == [self |-> self, exc |-> "none"]
Raised(self, e) == [self |-> self, exc |-> e]

\* tags_shared_with is not a field of the Python object: it records which
\* entity holds, as its other_tags, the very dict self.tags is bound to
\* (<<>> when none does), so that a write to self.tags shows in that entity
OSMLoader_init ==
    [tags |-> <<>>, node_refs |-> <<>>, position |-> <<NaN, NaN>>,
     stations |-> <<>>, platforms |-> <<>>, stop_positions |-> <<>>,
     bus_stops |-> <<>>, dangling_nodes |-> {},
     in_way |-> FALSE, in_node |-> FALSE,
     tags_shared_with |-> None]

\* self.tags[k] = v: the dict is changed in place, so the entity that holds
\* the same dict as its other_tags sees the new item too
write_tag(self, k, v) ==
    LET written == [self EXCEPT !.tags = set_item(@, k, v)] IN
    IF self.tags_shared_with = None THEN written
    ELSE LET entity == self.tags_shared_with[1] IN
         IF entity.list = "stations"
         THEN [written EXCEPT !.stations[entity.at].other_tags = written.tags]
         ELSE [written EXCEPT
                  !.platforms[entity.group].val[entity.at].other_tags = written.tags]

\* a faulty startElement: a tag is stored whatever its key is
startElement_unchecked(self, name, attrs) ==
    IF name = "node" THEN
        Returned([self EXCEPT !.tags = ("_id" :> attrs.id),
                              !.tags_shared_with = None,
                              !.position = <<float(attrs.lat), float(attrs.lon)>>,
                              !.in_node = TRUE])
    ELSE IF name = "way" THEN
        Returned([self EXCEPT !.tags = ("_id" :> attrs.id),
                              !.tags_shared_with = None,
                              !.node_refs = <<>>,
                              !.in_way = TRUE])
    ELSE IF name = "tag" /\ (self.in_node \/ self.in_way) THEN
        Returned(write_tag(self, attrs.k, attrs.v))
    ELSE IF name = "nd" /\ self.in_way THEN
        Returned([self EXCEPT !.node_refs = Append(@, attrs.ref)])
    ELSE Returned(self)

\* a faulty startElement: a node keeps the tags of the element before it
startElement_keeping_tags(self, name, attrs) ==
    IF name = "node" THEN
        Returned([self EXCEPT !.tags = set_item(@, "_id", attrs.id),
                              !.tags_shared_with = None,
                              !.position = <<float(attrs.lat), float(attrs.lon)>>,
                              !.in_node = TRUE])
    ELSE IF name = "way" THEN
        Returned([self EXCEPT !.tags = ("_id" :> attrs.id),
                              !.tags_shared_with = None,
                              !.node_refs = <<>>,
                              !.in_way = TRUE])
    ELSE IF name = "tag" /\ (self.in_node \/ self.in_way) THEN
        IF startswith(attrs.k, "_")
        THEN Raised(self, "ValueError")
        ELSE Returned(write_tag(self, attrs.k, attrs.v))
    ELSE IF name = "nd" /\ self.in_way THEN
        Returned([self EXCEPT !.node_refs = Append(@, attrs.ref)])
    ELSE Returned(self)

\* a faulty startElement: a tag is stored outside nodes and ways as well
startElement_tag_anywhere(self, name, attrs) ==
    IF name = "node" THEN
        Returned([self EXCEPT !.tags = ("_id" :> attrs.id),
                              !.tags_shared_with = None,
                              !.position = <<float(attrs.lat), float(attrs.lon)>>,
                              !.in_node = TRUE])
    ELSE IF name = "way" THEN
        Returned([self EXCEPT !.tags = ("_id" :> attrs.id),
                              !.tags_shared_with = None,
                              !.node_refs = <<>>,
                              !.in_way = TRUE])
    ELSE IF name = "tag" THEN
        IF startswith(attrs.k, "_")
        THEN Raised(self, "ValueError")
        ELSE Returned(write_tag(self, attrs.k, attrs.v))
    ELSE IF name = "nd" /\ self.in_way THEN
        Returned([self EXCEPT !.node_refs = Append(@, attrs.ref)])
    ELSE Returned(self)

startElement(self, name, attrs) ==
    IF name = "node" THEN
        Returned([self EXCEPT !.tags = ("_id" :> attrs.id),
                              !.tags_shared_with = None,
                              !.position = <<float(attrs.lat), float(attrs.lon)>>,
                              !.in_node = TRUE])
    ELSE IF name = "way" THEN
        Returned([self EXCEPT !.tags = ("_id" :> attrs.id),
                              !.tags_shared_with = None,
                              !.node_refs = <<>>,
                              !.in_way = TRUE])
    ELSE IF name = "tag" /\ (self.in_node \/ self.in_way) THEN
        IF startswith(attrs.k, "_")
        THEN Raised(self, "ValueError")
        ELSE Returned(write_tag(self, attrs.k, attrs.v))
    ELSE IF name = "nd" /\ self.in_way THEN
        Returned([self EXCEPT !.node_refs = Append(@, attrs.ref)])
    ELSE Returned(self)

\* the index of the group of key in an insertion-ordered dict of lists
group_index(d, key) == CHOOSE g \in DOMAIN d : d[g].key = key

\* the entity appended last to the group of key
last_in_group(list, d, key) ==
    Some([list |-> list, group |-> group_index(d, key),
          at |-> Len(d[group_index(d, key)].val)])

\* a faulty node branch: a platform tag is looked at before a station tag
end_node_platform_first(self0) ==
    LET self == [self0 EXCEPT !.in_node = FALSE]
        tags == self.tags
    IN
    IF get(tags, "public_transport") = Some("platform") THEN
        IF "ref:station" \notin DOMAIN tags THEN Raised(self, "KeyError")
        ELSE LET station == tags["ref:station"] IN
             IF "name" \notin DOMAIN tags
             THEN Raised([self EXCEPT !.platforms = setdefault(@, station)], "KeyError")
             ELSE LET platforms == setdefault_append(self.platforms, station,
                     [id |-> tags["_id"], name |-> tags["name"], station |-> station,
                      position |-> self.position, other_tags |-> tags])
                  IN Returned([self EXCEPT
                         !.platforms = platforms,
                         !.tags_shared_with =
                             last_in_group("platforms", platforms, station)])
    ELSE IF get(tags, "railway") = Some("station") THEN
        LET added == [self EXCEPT !.dangling_nodes = @ \cup {tags["_id"]}] IN
        IF "name" \notin DOMAIN tags \/ "ref" \notin DOMAIN tags
        THEN Raised(added, "KeyError")
        ELSE Returned([added EXCEPT !.stations = Append(@,
                [id |-> tags["_id"], name |-> tags["name"], pkpplk |-> tags["ref"],
                 ibnr |-> get(tags, "ref:ibnr"), position |-> self.position,
                 other_tags |-> tags]),
                !.tags_shared_with =
                    Some([list |-> "stations", group |-> 0,
                          at |-> Len(self.stations) + 1])])
    ELSE IF get(tags, "public_transport") = Some("stop_position") THEN
        LET added == [self EXCEPT !.dangling_nodes = @ \cup {tags["_id"]}] IN
        IF "ref:station" \notin DOMAIN tags THEN Raised(added, "KeyError")
        ELSE LET station == tags["ref:station"] IN
             Returned([added EXCEPT !.stop_positions = setdefault_append(@, station,
                     [id |-> tags["_id"], station |-> station,
                      towards |-> get_or(tags, "towards", ""),
                      platforms |-> osm_list(get_or(tags, "platforms", "")),
                      position |-> self.position])])
    ELSE IF get(tags, "highway") = Some("bus_stop") THEN
        IF "ref:station" \notin DOMAIN tags THEN Raised(self, "KeyError")
        ELSE LET station == tags["ref:station"] IN
             Returned([self EXCEPT !.bus_stops = setdefault_append(@, station,
                     [id |-> tags["_id"], station |-> station,
                      position |-> self.position,
                      direction_hints |-> osm_list(get_or(tags, "direction", ""))])])
    ELSE Returned(self)

\* the node branch of endElement; other_tags=self.tags hands the entity the
\* tags dict itself, not a copy
end_node(self0) ==
    LET self == [self0 EXCEPT !.in_node = FALSE]
        tags == self.tags
    IN
    IF get(tags, "railway") = Some("station") THEN
        LET added == [self EXCEPT !.dangling_nodes = @ \cup {tags["_id"]}] IN
        IF "name" \notin DOMAIN tags \/ "ref" \notin DOMAIN tags
        THEN Raised(added, "KeyError")
        ELSE Returned([added EXCEPT !.stations = Append(@,
                [id |-> tags["_id"], name |-> tags["name"], pkpplk |-> tags["ref"],
                 ibnr |-> get(tags, "ref:ibnr"), position |-> self.position,
                 other_tags |-> tags]),
                !.tags_shared_with =
                    Some([list |-> "stations", group |-> 0,
                          at |-> Len(self.stations) + 1])])
    ELSE IF get(tags, "public_transport") = Some("platform") THEN
        IF "ref:station" \notin DOMAIN tags THEN Raised(self, "KeyError")
        ELSE LET station == tags["ref:station"] IN
             IF "name" \notin DOMAIN tags
             THEN Raised([self EXCEPT !.platforms = setdefault(@, station)], "KeyError")
             ELSE LET platforms == setdefault_append(self.platforms, station,
                     [id |-> tags["_id"], name |-> tags["name"], station |-> station,
                      position |-> self.position, other_tags |-> tags])
                  IN Returned([self EXCEPT
                         !.platforms = platforms,
                         !.tags_shared_with =
                             last_in_group("platforms", platforms, station)])
    ELSE IF get(tags, "public_transport") = Some("stop_position") THEN
        LET added == [self EXCEPT !.dangling_nodes = @ \cup {tags["_id"]}] IN
        IF "ref:station" \notin DOMAIN tags THEN Raised(added, "KeyError")
        ELSE LET station == tags["ref:station"] IN
             Returned([added EXCEPT !.stop_positions = setdefault_append(@, station,
                     [id |-> tags["_id"], station |-> station,
                      towards |-> get_or(tags, "towards", ""),
                      platforms |-> osm_list(get_or(tags, "platforms", "")),
                      position |-> self.position])])
    ELSE IF get(tags, "highway") = Some("bus_stop") THEN
        IF "ref:station" \notin DOMAIN tags THEN Raised(self, "KeyError")
        ELSE LET station == tags["ref:station"] IN
             Returned([self EXCEPT !.bus_stops = setdefault_append(@, station,
                     [id |-> tags["_id"], station |-> station,
                      position |-> self.position,
                      direction_hints |-> osm_list(get_or(tags, "direction", ""))])])
    ELSE Returned(self)

\* a faulty way branch: the points of every way are removed, rail or not
end_way_any_way(self0) ==
    LET self == [self0 EXCEPT !.in_way = FALSE] IN
    Returned([self EXCEPT !.dangling_nodes = @ \ Range(self.node_refs)])

\* a faulty way branch: a rail way empties the set of dangling nodes
end_way_clearing(self0) ==
    LET self == [self0 EXCEPT !.in_way = FALSE] IN
    IF get(self.tags, "railway") = Some("rail")
    THEN Returned([self EXCEPT !.dangling_nodes = {}])
    ELSE Returned(self)

\* the way branch of endElement
end_way(self0) ==
    LET self == [self0 EXCEPT !.in_way = FALSE] IN
    IF get(self.tags, "railway") = Some("rail")
    THEN Returned([self EXCEPT !.dangling_nodes = @ \ Range(self.node_refs)])
    ELSE Returned(self)

\* a faulty endElement: a node that lacks a required tag is passed over
endElement_skipping(self, name) ==
    IF name = "node" THEN
        LET ended == end_node(self) IN
        IF ended.exc = "KeyError"
        THEN Returned([self EXCEPT !.in_node = FALSE])
        ELSE ended
    ELSE IF name = "way" THEN end_way(self)
    ELSE Returned(self)

endElement(self, name) ==
    IF name = "node" THEN end_node(self)
    ELSE IF name = "way" THEN end_way(self)
    ELSE Returned(self)

(***************************************************************************)
(* verify.py: the older OSMLoader, which reads nodes only.                 *)
(***************************************************************************)
legacy_OSMLoader_init ==
    [tags |-> <<>>, stations |-> <<>>, platforms |-> <<>>, in_node |-> FALSE,
     tags_shared_with |-> None]

legacy_startElement(self, name, attrs) ==
    IF name = "node" THEN
        Returned([self EXCEPT !.tags = ("_id" :> attrs.id),
                              !.tags_shared_with = None,
                              !.in_node = TRUE])
    ELSE IF name = "tag" /\ self.in_node THEN
        IF startswith(attrs.k, "_")
        THEN Raised(self, "ValueError")
        ELSE Returned(write_tag(self, attrs.k, attrs.v))
    ELSE Returned(self)

legacy_endElement(self0, name) ==
    IF name = "node" THEN
        LET self == [self0 EXCEPT !.in_node = FALSE]
            tags == self.tags
        IN
        IF get(tags, "railway") = Some("station") THEN
            IF "name" \notin DOMAIN tags \/ "ref" \notin DOMAIN tags
            THEN Raised(self, "KeyError")
            ELSE Returned([self EXCEPT !.stations = Append(@,
                    [id |-> tags["_id"], name |-> tags["name"], pkpplk |-> tags["ref"],
                     ibnr |-> get(tags, "ref:ibnr"), other_tags |-> tags]),
                    !.tags_shared_with =
                        Some([list |-> "stations", group |-> 0,
                              at |-> Len(self.stations) + 1])])
        ELSE IF get(tags, "public_transport") = Some("platform") THEN
            IF "ref:station" \notin DOMAIN tags THEN Raised(self, "KeyError")
            ELSE LET station == tags["ref:station"] IN
                 IF "name" \notin DOMAIN tags
                 THEN Raised([self EXCEPT !.platforms = setdefault(@, station)], "KeyError")
                 ELSE LET platforms == setdefault_append(self.platforms, station,
                         [id |-> tags["_id"], name |-> tags["name"], station |-> station,
                          other_tags |-> tags])
                      IN Returned([self EXCEPT
                             !.platforms = platforms,
                             !.tags_shared_with =
                                 last_in_group("platforms", platforms, station)])
        ELSE Returned(self)
    ELSE Returned(self0)

(***************************************************************************)
(* scripts/verify.py: the rule groups.  A rule group returns its ok and    *)
(* what it printed after its heading: the uniqueness groups print one row  *)
(* per station (the fields id, pkpplk, ibnr or "", name, before padding    *)
(* and colouring), the other groups print lines of text (colour codes      *)
(* left out).                                                              *)
(***************************************************************************)
HEADING_HINTS == {"N", "NE", "E", "SE", "S", "SW", "W", "NW"}
VALID_HINTS == {"*", "T"} \cup HEADING_HINTS

\* chain.from_iterable / concatenation of a sequence of sequences
RECURSIVE chain(_)
chain(seqs) == IF seqs = <<>> THEN <<>> ELSE Head(seqs) \o chain(Tail(seqs))

\* the fields print_station prints
print_station(station) ==
    <<station.id, station.pkpplk,
      IF station.ibnr = None THEN "" ELSE station.ibnr[1],
      station.name>>

\* the rows printed for the groups of more than one station
print_groups(groups) ==
    chain([g \in DOMAIN groups |->
              [i \in DOMAIN groups[g].val |-> print_station(groups[g].val[i])]])

is_invalid_group(entry) == Len(entry.val) > 1

\* a faulty verify_uniq_pkpplk: the stations are grouped by their names
verify_uniq_pkpplk_by_name(stations) ==
    LET stations_by_pkpplk == group_by(stations, "name")
        invalid == SelectSeq(stations_by_pkpplk, is_invalid_group)
    IN [ok |-> invalid = <<>>, out |-> print_groups(invalid)]

verify_uniq_pkpplk(stations) ==
    LET stations_by_pkpplk == group_by(stations, "pkpplk")
        invalid == SelectSeq(stations_by_pkpplk, is_invalid_group)
    IN [ok |-> invalid = <<>>, out |-> print_groups(invalid)]

\* a faulty verify_uniq_names: a name shared by two stations only is let through
verify_uniq_names_above_two(stations) ==
    LET stations_by_name == group_by(stations, "name")
        invalid == SelectSeq(stations_by_name, LAMBDA entry : Len(entry.val) > 2)
    IN [ok |-> invalid = <<>>, out |-> print_groups(invalid)]

verify_uniq_names(stations) ==
    LET stations_by_name == group_by(stations, "name")
        invalid == SelectSeq(stations_by_name, is_invalid_group)
    IN [ok |-> invalid = <<>>, out |-> print_groups(invalid)]

has_ibnr(station) == station.ibnr # None

\* a faulty verify_uniq_ibnr: the stations without an ibnr are grouped as well
verify_uniq_ibnr_of_all(stations) ==
    LET stations_by_ibnr == group_by(stations, "ibnr")
        invalid == SelectSeq(stations_by_ibnr, is_invalid_group)
    IN [ok |-> invalid = <<>>, out |-> print_groups(invalid)]

verify_uniq_ibnr(stations) ==
    LET stations_by_ibnr == group_by(SelectSeq(stations, has_ibnr), "ibnr")
        invalid == SelectSeq(stations_by_ibnr, is_invalid_group)
    IN [ok |-> invalid = <<>>, out |-> print_groups(invalid)]

is_digit(c) == c \in DOMAIN Digit

\* re.fullmatch(r"[0-9]9[0-9][0-9]", s)
fullmatch_d9dd(s) ==
    /\ Len(s) = 4
    /\ is_digit(SubSeq(s, 1, 1))
    /\ SubSeq(s, 2, 2) = "9"
    /\ is_digit(SubSeq(s, 3, 3))
    /\ is_digit(SubSeq(s, 4, 4))

\* re.fullmatch(r"[0-9]9[0-9]{4}", s)
fullmatch_d9d4(s) ==
    /\ Len(s) = 6
    /\ is_digit(SubSeq(s, 1, 1))
    /\ SubSeq(s, 2, 2) = "9"
    /\ \A i \in 3..6 : is_digit(SubSeq(s, i, i))

\* the issues verify_other_attributes collects for one station
other_attributes_issues(station) ==
    LET wheelchair_value == get(station.other_tags, "wheelchair")
        ref_ztmw == get(station.other_tags, "ref:ztmw")
    IN (IF wheelchair_value \notin {None, Some("yes"), Some("no")}
        THEN <<"Invalid wheelchair value: " \o wheelchair_value[1]>> ELSE <<>>)
       \o
       (IF ref_ztmw # None /\ ~fullmatch_d9dd(ref_ztmw[1])
        THEN <<"Invalid ref:ztmw value: " \o ref_ztmw[1]>> ELSE <<>>)

\* "Issues in <pkpplk> (<name>):" and the indented issues, when there are any
print_issues(station, issues) ==
    IF issues = <<>> THEN <<>>
    ELSE <<"Issues in " \o station.pkpplk \o " (" \o station.name \o "):">>
         \o [i \in DOMAIN issues |-> "    " \o issues[i]]

verify_other_attributes(stations) ==
    LET issues == [i \in DOMAIN stations |-> other_attributes_issues(stations[i])]
    IN [ok |-> \A i \in DOMAIN stations : issues[i] = <<>>,
        out |-> chain([i \in DOMAIN stations |-> print_issues(stations[i], issues[i])])]

\* Counter(iterable), in the order of first occurrence
Counter(iterable) ==
    LET counted[n \in 0..Len(iterable)] ==
            IF n = 0 THEN <<>>
            ELSE LET c == counted[n - 1]
                     x == iterable[n]
                 IN IF \E i \in DOMAIN c : c[i].key = x
                    THEN [i \in DOMAIN c |-> IF c[i].key = x
                                              THEN [key |-> x, val |-> c[i].val + 1]
                                              ELSE c[i]]
                    ELSE Append(c, [key |-> x, val |-> 1])
    IN counted[Len(iterable)]

\* key in d, for an insertion-ordered dict
has_key(d, key) == \E i \in DOMAIN d : d[i].key = key

\* counter[key]: 0 for a missing key
count_of(counter, key) ==
    IF has_key(counter, key)
    THEN counter[CHOOSE i \in DOMAIN counter : counter[i].key = key].val
    ELSE 0

\* a faulty loop body: the clash of a heading with the wildcard is not looked for
hint_item_issue_no_clash(wildcard_used, hint, count) ==
    IF hint \notin VALID_HINTS THEN
        <<"Invalid direction hint used: " \o hint>>
    ELSE IF count > 1 THEN
        <<"Hint " \o hint \o " used " \o ToString(count) \o " times">>
    ELSE <<>>

\* a faulty loop body: a hint used twice is let through
hint_item_issue_above_two(wildcard_used, hint, count) ==
    IF hint \notin VALID_HINTS THEN
        <<"Invalid direction hint used: " \o hint>>
    ELSE IF wildcard_used /\ hint \in HEADING_HINTS THEN
        <<"Uses both the * and " \o hint \o " hints">>
    ELSE IF count > 2 THEN
        <<"Hint " \o hint \o " used " \o ToString(count) \o " times">>
    ELSE <<>>

\* the issue the loop of _validate_station_direction_hints adds for one item
hint_item_issue(wildcard_used, hint, count) ==
    IF hint \notin VALID_HINTS THEN
        <<"Invalid direction hint used: " \o hint>>
    ELSE IF wildcard_used /\ hint \in HEADING_HINTS THEN
        <<"Uses both the * and " \o hint \o " hints">>
    ELSE IF count > 1 THEN
        <<"Hint " \o hint \o " used " \o ToString(count) \o " times">>
    ELSE <<>>

\* a faulty rule 2: one heading is let through, only none is not
validate_hints_one_heading_enough(direction_hints) ==
    IF direction_hints = <<>> THEN <<>>
    ELSE
    LET wildcard_used == count_of(direction_hints, "*") > 0
        used_heading_hints ==
            {direction_hints[i].key : i \in DOMAIN direction_hints} \cap HEADING_HINTS
    IN chain([i \in DOMAIN direction_hints |->
                 hint_item_issue(wildcard_used, direction_hints[i].key,
                                 direction_hints[i].val)])
       \o (IF has_key(direction_hints, "T") /\ ~wildcard_used
              /\ used_heading_hints = {}
           THEN <<"Only the T hint is present">> ELSE <<>>)
       \o (IF ~wildcard_used /\ Cardinality(used_heading_hints) < 1
           THEN <<"Only one heading hint is used">> ELSE <<>>)

validate_station_direction_hints(direction_hints) ==
    IF direction_hints = <<>> THEN <<>>
    ELSE
    LET wildcard_used == count_of(direction_hints, "*") > 0
        used_heading_hints ==
            {direction_hints[i].key : i \in DOMAIN direction_hints} \cap HEADING_HINTS
    IN chain([i \in DOMAIN direction_hints |->
                 hint_item_issue(wildcard_used, direction_hints[i].key,
                                 direction_hints[i].val)])
       \o (IF has_key(direction_hints, "T") /\ ~wildcard_used
              /\ used_heading_hints = {}
           THEN <<"Only the T hint is present">> ELSE <<>>)
       \o (IF ~wildcard_used /\ Cardinality(used_heading_hints) < 2
           THEN <<"Only one heading hint is used">> ELSE <<>>)

\* a < b for strings of digits, as Python compares strings
RECURSIVE str_less(_, _)
str_less(a, b) ==
    IF b = "" THEN FALSE
    ELSE IF a = "" THEN TRUE
    ELSE LET x == Digit[SubSeq(a, 1, 1)]
             y == Digit[SubSeq(b, 1, 1)]
         IN IF x # y THEN x < y
            ELSE str_less(SubSeq(a, 2, Len(a)), SubSeq(b, 2, Len(b)))

\* sorted(xs) for a sequence or a set of strings of digits
RECURSIVE sorted_set(_)
sorted_set(S) ==
    IF S = {} THEN <<>>
    ELSE LET m == CHOOSE x \in S : \A y \in S \ {x} : str_less(x, y)
         IN <<m>> \o sorted_set(S \ {m})

\* sorted(i.id for i in entities): equal ids stay, each as often as it occurs
sorted_ids(entities) ==
    LET ids == [i \in DOMAIN entities |-> entities[i].id]
        times(x) == Cardinality({i \in DOMAIN ids : ids[i] = x})
        distinct == sorted_set(Range(ids))
    IN chain([k \in DOMAIN distinct |-> [j \in 1..times(distinct[k]) |-> distinct[k]]])

(***************************************************************************)
(* scripts/util.py: distance.  For two points on one meridian the          *)
(* haversine formula gives R * |lat2 - lat1| (in radians); the documents   *)
(* of this model keep every node on one meridian.  With R = 6364858.7 m a  *)
(* step of 1e-4 degree is 11108.774 mm.                                    *)
(***************************************************************************)
MicrometresPerStep == 11108774

distance(n1, n2) ==
    IF n1[1].nan \/ n1[2].nan \/ n2[1].nan \/ n2[2].nan THEN NaN
    ELSE LET delta == n2[1].val - n1[1].val
             steps == IF delta < 0 THEN 0 - delta ELSE delta
         IN F((steps * MicrometresPerStep) \div 1000)

\* f"{d:.2f} m" for a distance in millimetres
format_metres(d) ==
    IF d.nan THEN "nan m"
    ELSE LET cm == (d.val + 5) \div 10
             frac == cm % 100
         IN ToString(cm \div 100) \o "."
            \o (IF frac < 10 THEN "0" ELSE "") \o ToString(frac) \o " m"

\* a faulty threshold test: a distance that is not a number passes
too_far_unless_nan(d) == ~d.nan /\ d.val > 100000

\* distance_from_station > 100.0 or math.isnan(distance_from_station)
too_far(d) == d.nan \/ d.val > 100000

\* {i.pkpplk: i for i in data.stations}: a later station replaces an earlier one
build_stations_map(stations) ==
    [code \in {stations[i].pkpplk : i \in DOMAIN stations} |->
        stations[CHOOSE i \in DOMAIN stations :
            /\ stations[i].pkpplk = code
            /\ \A j \in DOMAIN stations : stations[j].pkpplk = code => j <= i]]

\* the issues verify_platforms collects for one platform
platform_issues(platform, station) ==
    LET distance_from_station == distance(platform.position, station.position)
        ztmw_refs == osm_list(get_or(platform.other_tags, "ref:ztmw", ""))
        wheelchair_value == get(platform.other_tags, "wheelchair")
    IN (IF too_far(distance_from_station)
        THEN <<"Platform " \o platform.name \o ": is "
               \o format_metres(distance_from_station)
               \o " away from the station node">>
        ELSE <<>>)
       \o chain([i \in DOMAIN ztmw_refs |->
                    IF ~fullmatch_d9d4(ztmw_refs[i])
                    THEN <<"Platform " \o platform.name
                           \o ": invalid ZTM Warszawa code: " \o ztmw_refs[i]>>
                    ELSE <<>>])
       \o (IF wheelchair_value \notin {None, Some("yes"), Some("no")}
           THEN <<"Platform " \o platform.name \o ": invalid wheelchair value: "
                  \o wheelchair_value[1]>>
           ELSE <<>>)

\* the direction hints of the platforms of one station
platform_direction_hints(platforms) ==
    Counter(chain([i \in DOMAIN platforms |->
                      osm_list(get_or(platforms[i].other_tags, "direction", ""))]))

\* the issues about reused platform names
platform_name_issues(platforms) ==
    LET duplicates == SelectSeq(group_by(platforms, "name"), is_invalid_group)
    IN [d \in DOMAIN duplicates |->
           "Platform name " \o duplicates[d].val[1].name \o " reused by nodes: "
           \o join(", ", sorted_ids(duplicates[d].val))]

\* a faulty reference check: one violation for each platform of the group
platforms_of_station_each_reported(map, station_id, platforms) ==
    IF station_id \notin DOMAIN map THEN
        [i \in DOMAIN platforms |->
            "Invalid reference to station " \o station_id \o " from platforms: "
            \o platforms[i].id]
    ELSE LET station == map[station_id] IN
         print_issues(station,
             platform_name_issues(platforms)
             \o validate_station_direction_hints(platform_direction_hints(platforms))
             \o chain([i \in DOMAIN platforms |-> platform_issues(platforms[i], station)]))

\* one pass of the loop of verify_platforms: what it prints for one station
platforms_of_station(map, station_id, platforms) ==
    IF station_id \notin DOMAIN map THEN
        <<"Invalid reference to station " \o station_id \o " from platforms: "
          \o join(", ", sorted_ids(platforms))>>
    ELSE LET station == map[station_id] IN
         print_issues(station,
             platform_name_issues(platforms)
             \o validate_station_direction_hints(platform_direction_hints(platforms))
             \o chain([i \in DOMAIN platforms |-> platform_issues(platforms[i], station)]))

verify_platforms(map, all_platforms) ==
    LET printed == [i \in DOMAIN all_platforms |->
                       platforms_of_station(map, all_platforms[i].key,
                                            all_platforms[i].val)]
    IN [ok |-> \A i \in DOMAIN printed : printed[i] = <<>>, out |-> chain(printed)]

\* the issues verify_stop_positions collects for one stop position
stop_position_issues(sp, station, map) ==
    LET distance_from_station == distance(sp.position, station.position)
        unknown_references ==
            IF sp.towards \in {"", "fallback"} THEN {}
            ELSE {r \in Range(split(sp.towards, ";")) : r \notin DOMAIN map}
    IN (IF too_far(distance_from_station)
        THEN <<"Stop Position " \o sp.id \o ": is "
               \o format_metres(distance_from_station)
               \o " away from the station node">>
        ELSE <<>>)
       \o (IF sp.platforms = <<>>
           THEN <<"Stop Position " \o sp.id \o ": has no \"platforms\" tag ">>
           ELSE <<>>)
       \o (IF unknown_references # {}
           THEN <<"Stop Position " \o sp.id
                  \o ": \"towards\" tag references unknown stations - "
                  \o join(", ", sorted_set(unknown_references))>>
           ELSE <<>>)

is_fallback(sp) == sp.towards = "fallback"

\* a faulty fallback rule: only more than one fallback stop position is an issue
stop_positions_of_station_above_one(map, station_id, stops) ==
    IF station_id \notin DOMAIN map THEN
        <<"Invalid reference to station " \o station_id \o " from stop positions: "
          \o join(", ", sorted_ids(stops))>>
    ELSE LET station == map[station_id]
             fallback_stop_positions == Len(SelectSeq(stops, is_fallback))
         IN print_issues(station,
                chain([i \in DOMAIN stops |-> stop_position_issues(stops[i], station, map)])
                \o (IF fallback_stop_positions > 1
                    THEN <<"Got " \o ToString(fallback_stop_positions)
                           \o " \"towards=fallback\" Stop Positions, expected exactly 1">>
                    ELSE <<>>))

\* one pass of the loop of verify_stop_positions: what it prints for one station
stop_positions_of_station(map, station_id, stops) ==
    IF station_id \notin DOMAIN map THEN
        <<"Invalid reference to station " \o station_id \o " from stop positions: "
          \o join(", ", sorted_ids(stops))>>
    ELSE LET station == map[station_id]
             fallback_stop_positions == Len(SelectSeq(stops, is_fallback))
         IN print_issues(station,
                chain([i \in DOMAIN stops |-> stop_position_issues(stops[i], station, map)])
                \o (IF fallback_stop_positions # 1
                    THEN <<"Got " \o ToString(fallback_stop_positions)
                           \o " \"towards=fallback\" Stop Positions, expected exactly 1">>
                    ELSE <<>>))

verify_stop_positions(map, all_stop_positions) ==
    LET printed == [i \in DOMAIN all_stop_positions |->
                       stop_positions_of_station(map, all_stop_positions[i].key,
                                                 all_stop_positions[i].val)]
    IN [ok |-> \A i \in DOMAIN printed : printed[i] = <<>>, out |-> chain(printed)]

has_no_hints(bus_stop) == bus_stop.direction_hints = <<>>

\* a faulty coverage rule: the sole wildcard hint of an only bus stop is an issue too
bus_stop_coverage_issues_empty_only(stops) ==
    IF Len(stops) = 1 THEN
        LET stop_hints == stops[1].direction_hints IN
        IF stop_hints # <<>>
        THEN <<"The only bus stop has incomplete direction hint coverage: "
               \o join(";", stop_hints) \o ". Expected no hints, or sole * hint.">>
        ELSE <<>>
    ELSE LET without_hints == SelectSeq(stops, has_no_hints) IN
         [i \in DOMAIN without_hints |->
             "Bus stop " \o without_hints[i].id \o " has no hints"]

\* the direction hint existence requirement of verify_bus_stops
bus_stop_coverage_issues(stops) ==
    IF Len(stops) = 1 THEN
        LET stop_hints == stops[1].direction_hints IN
        IF stop_hints # <<>> /\ stop_hints # <<"*">>
        THEN <<"The only bus stop has incomplete direction hint coverage: "
               \o join(";", stop_hints) \o ". Expected no hints, or sole * hint.">>
        ELSE <<>>
    ELSE LET without_hints == SelectSeq(stops, has_no_hints) IN
         [i \in DOMAIN without_hints |->
             "Bus stop " \o without_hints[i].id \o " has no hints"]

\* one pass of the loop of verify_bus_stops: what it prints for one station
bus_stops_of_station(map, station_id, stops) ==
    IF station_id \notin DOMAIN map THEN
        <<"Invalid reference to station " \o station_id \o " from bus stops: "
          \o join(", ", sorted_ids(stops))>>
    ELSE print_issues(map[station_id],
             bus_stop_coverage_issues(stops)
             \o validate_station_direction_hints(
                    Counter(chain([i \in DOMAIN stops |-> stops[i].direction_hints]))))

verify_bus_stops(map, all_bus_stops) ==
    LET printed == [i \in DOMAIN all_bus_stops |->
                       bus_stops_of_station(map, all_bus_stops[i].key,
                                            all_bus_stops[i].val)]
    IN [ok |-> \A i \in DOMAIN printed : printed[i] = <<>>, out |-> chain(printed)]

(***************************************************************************)
(* verify.py: the rule groups of the older program that differ from        *)
(* scripts/verify.py.  verify_uniq_pkpplk and verify_other_attributes are  *)
(* the same in both files.                                                 *)
(***************************************************************************)
\* all(s.ibnr == "404" for s in invalid_group)
all_ibnr_404(entry) == \A i \in DOMAIN entry.val : entry.val[i].ibnr = Some("404")

legacy_is_reported_name_group(entry) == is_invalid_group(entry) /\ ~all_ibnr_404(entry)

legacy_verify_uniq_names(stations) ==
    LET stations_by_name == group_by(stations, "name")
        invalid == SelectSeq(stations_by_name, legacy_is_reported_name_group)
    IN [ok |-> invalid = <<>>, out |-> print_groups(invalid)]

\* len(invalid_group) == 2 and {s.pkpplk for s in invalid_group} == {"33506", "34868"}
is_warszawa_zachodnia(entry) ==
    /\ Len(entry.val) = 2
    /\ {entry.val[i].pkpplk : i \in DOMAIN entry.val} = {"33506", "34868"}

legacy_is_reported_ibnr_group(entry) ==
    is_invalid_group(entry) /\ ~is_warszawa_zachodnia(entry)

legacy_verify_uniq_ibnr(stations) ==
    LET stations_by_ibnr == group_by(SelectSeq(stations, has_ibnr), "ibnr")
        invalid == SelectSeq(stations_by_ibnr, legacy_is_reported_ibnr_group)
    IN [ok |-> invalid = <<>>, out |-> print_groups(invalid)]

legacy_hint_item_issue(wildcard_used, hint, count) ==
    IF hint \notin VALID_HINTS THEN
        <<"Invalid direction hint used: " \o hint>>
    ELSE IF wildcard_used /\ hint \in HEADING_HINTS THEN
        <<"Station uses both the * and " \o hint \o " hints">>
    ELSE IF count > 1 THEN
        <<"Hint " \o hint \o " used " \o ToString(count) \o " times">>
    ELSE <<>>

\* the direction hint rules written out in verify_platforms of verify.py
legacy_direction_hint_issues(direction_hints) ==
    IF direction_hints = <<>> THEN <<>>
    ELSE
    LET wildcard_used == count_of(direction_hints, "*") > 0
        used_heading_hints ==
            {direction_hints[i].key : i \in DOMAIN direction_hints} \cap HEADING_HINTS
    IN chain([i \in DOMAIN direction_hints |->
                 legacy_hint_item_issue(wildcard_used, direction_hints[i].key,
                                        direction_hints[i].val)])
       \o (IF has_key(direction_hints, "T") /\ ~wildcard_used
              /\ used_heading_hints = {}
           THEN <<"Only the T is present">> ELSE <<>>)
       \o (IF ~wildcard_used /\ Cardinality(used_heading_hints) < 2
           THEN <<"Only one heading hint is used">> ELSE <<>>)

legacy_platform_issues(platform) ==
    LET ztmw_refs == osm_list(get_or(platform.other_tags, "ref:ztmw", ""))
        wheelchair_value == get(platform.other_tags, "wheelchair")
    IN chain([i \in DOMAIN ztmw_refs |->
                 IF ~fullmatch_d9d4(ztmw_refs[i])
                 THEN <<"Platform " \o platform.name
                        \o ": invalid ZTM Warszawa code: " \o ztmw_refs[i]>>
                 ELSE <<>>])
       \o (IF wheelchair_value \notin {None, Some("yes"), Some("no")}
           THEN <<"Platform " \o platform.name \o ": invalid wheelchair value: "
                  \o wheelchair_value[1]>>
           ELSE <<>>)

legacy_platforms_of_station(map, station_id, platforms) ==
    IF station_id \notin DOMAIN map THEN
        <<"Invalid reference to station " \o station_id \o " from platforms: "
          \o join(", ", sorted_ids(platforms))>>
    ELSE print_issues(map[station_id],
             platform_name_issues(platforms)
             \o legacy_direction_hint_issues(platform_direction_hints(platforms))
             \o chain([i \in DOMAIN platforms |-> legacy_platform_issues(platforms[i])]))

legacy_verify_platforms(map, all_platforms) ==
    LET printed == [i \in DOMAIN all_platforms |->
                       legacy_platforms_of_station(map, all_platforms[i].key,
                                                   all_platforms[i].val)]
    IN [ok |-> \A i \in DOMAIN printed : printed[i] = <<>>, out |-> chain(printed)]

(***************************************************************************)
(* The two programs.                                                       *)
(***************************************************************************)
Programs == {"scripts", "legacy"}

new_handler(prog) == IF prog = "scripts" THEN OSMLoader_init ELSE legacy_OSMLoader_init

start_element(prog, self, name, attrs) ==
    IF prog = "scripts" THEN startElement(self, name, attrs)
    ELSE legacy_startElement(self, name, attrs)

end_element(prog, self, name) ==
    IF prog = "scripts" THEN endElement(self, name)
    ELSE legacy_endElement(self, name)

\* an empty child element: startElement, then endElement unless that raised
child_element(prog, self, name, attrs) ==
    LET started == start_element(prog, self, name, attrs) IN
    IF started.exc # "none" THEN started ELSE end_element(prog, started.self, name)

\* the number of rule groups main calls
group_count(prog) == IF prog = "scripts" THEN 7 ELSE 5

(***************************************************************************)
(* The documents streamed in the model: OSM files, in which nodes, ways    *)
(* and relations follow one another under the root, node ids are unique,   *)
(* a node holds tags, a way holds nd references and tags, a relation       *)
(* holds tags.  The k-th node has the id k.                                *)
(***************************************************************************)
\* the ids an nd element may refer to
NdRefs == {"1", "2"}

\* the position of the k-th node: 0.0001 degree north of the one before it
lat_attr(k) == "52.000" \o ToString(k)
lon_attr(k) == "21.0000"

NodeTags == {<<"railway", "station">>, <<"public_transport", "platform">>,
             <<"public_transport", "stop_position">>, <<"highway", "bus_stop">>,
             <<"name", "A">>, <<"ref", "1">>, <<"ref:station", "1">>,
             <<"_id", "9">>}
WayTags == {<<"railway", "rail">>, <<"railway", "tram">>, <<"_id", "9">>}
RelationTags == {<<"type", "route">>, <<"_id", "9">>}

tag_choices(el) ==
    IF el = "node" THEN NodeTags ELSE IF el = "way" THEN WayTags ELSE RelationTags

\* the element the parser has open, as read from the file so far
opened(el, id) ==
    [el |-> el, id |-> id, keys |-> {}, railway |-> None,
     public_transport |-> None, nds |-> <<>>]

\* the element as the parser puts it on record when it closes
closed(element) ==
    [el |-> element.el, id |-> element.id, railway |-> element.railway,
     public_transport |-> element.public_transport, nds |-> element.nds]

nodes_read == Len(SelectSeq(document, LAMBDA e : e.el = "node"))

\* a handler call made by the parser: an exception ends the process at once,
\* with a traceback and the exit status 1
Deliver(result, new_open, new_document) ==
    /\ handler' = result.self
    /\ nchildren' = IF new_open # None /\ open # None THEN nchildren + 1 ELSE nchildren
    /\ IF result.exc = "none"
       THEN /\ open' = new_open
            /\ document' = new_document
            /\ UNCHANGED <<pc, exit_code, traceback>>
       ELSE /\ open' = IF new_open # None THEN new_open ELSE open
            /\ pc' = "aborted"
            /\ exit_code' = Some(1)
            /\ traceback' = result.exc
            /\ UNCHANGED document
    /\ UNCHANGED <<program, stations_map, ok, report, hints_in, hints_out,
                   lookup_by_pkpplk, lookup_by_ibnr, rerun>>

StartNode ==
    /\ pc = "parsing" /\ open = None
    /\ Len(document) < MaxElements
    /\ LET k == nodes_read + 1
           id == ToString(k)
       IN Deliver(start_element(program, handler, "node",
                                [id |-> id, lat |-> lat_attr(k), lon |-> lon_attr(k)]),
                  Some(opened("node", id)), document)

StartWay ==
    /\ pc = "parsing" /\ open = None
    /\ Len(document) < MaxElements
    /\ LET id == ToString(100 + Len(document)) IN
       Deliver(start_element(program, handler, "way", [id |-> id]),
               Some(opened("way", id)), document)

StartRelation ==
    /\ pc = "parsing" /\ open = None
    /\ Len(document) < MaxElements
    /\ LET id == ToString(200 + Len(document)) IN
       Deliver(start_element(program, handler, "relation", [id |-> id]),
               Some(opened("relation", id)), document)

Tag ==
    /\ pc = "parsing" /\ open # None
    /\ nchildren < MaxChildren
    /\ \E kv \in tag_choices(open[1].el) :
         LET read == [open[1] EXCEPT
                        !.keys = @ \cup {kv[1]},
                        !.railway = IF kv[1] = "railway" THEN Some(kv[2]) ELSE @,
                        !.public_transport =
                            IF kv[1] = "public_transport" THEN Some(kv[2]) ELSE @]
         IN Deliver(child_element(program, handler, "tag", [k |-> kv[1], v |-> kv[2]]),
                    Some(read), document)

Nd ==
    /\ pc = "parsing" /\ open # None
    /\ open[1].el = "way" /\ nchildren < MaxChildren
    /\ \E ref \in NdRefs :
         Deliver(child_element(program, handler, "nd", [ref |-> ref]),
                 Some([open[1] EXCEPT !.nds = Append(@, ref)]), document)

EndElement ==
    /\ pc = "parsing" /\ open # None
    /\ Deliver(end_element(program, handler, open[1].el), None,
               Append(document, closed(open[1])))

\* the end of the file: the parser is done with and load_all returns the
\* handler to main
EndDocument ==
    /\ pc = "parsing" /\ open = None
    /\ pc' = "run"
    /\ nchildren' = 0
    /\ document' = <<>>
    /\ UNCHANGED <<program, open, handler, stations_map, ok, report,
                   exit_code, traceback, hints_in, hints_out,
                   lookup_by_pkpplk, lookup_by_ibnr, rerun>>

(***************************************************************************)
(* main of scripts/verify.py and of verify.py.                             *)
(***************************************************************************)
\* a faulty main: ok = verify_...(...), the earlier results forgotten
RunGroup_overwriting(name, result) ==
    /\ report' = Append(report, [group |-> name, ok |-> result.ok, out |-> result.out])
    /\ ok' = result.ok
    /\ UNCHANGED <<program, open, nchildren, document, handler, pc, stations_map,
                   exit_code, traceback, hints_in, hints_out,
                   lookup_by_pkpplk, lookup_by_ibnr, rerun>>

\* ok = verify_...(...) and ok
RunGroup(name, result) ==
    /\ report' = Append(report, [group |-> name, ok |-> result.ok, out |-> result.out])
    /\ ok' = (result.ok /\ ok)
    /\ UNCHANGED <<program, open, nchildren, document, handler, pc, stations_map,
                   exit_code, traceback, hints_in, hints_out,
                   lookup_by_pkpplk, lookup_by_ibnr, rerun>>

RunUniqPkpplk ==
    /\ pc = "run" /\ Len(report) = 0
    /\ RunGroup("verify_uniq_pkpplk", verify_uniq_pkpplk(handler.stations))

RunUniqNames ==
    /\ pc = "run" /\ Len(report) = 1
    /\ RunGroup("verify_uniq_names",
                IF program = "scripts" THEN verify_uniq_names(handler.stations)
                ELSE legacy_verify_uniq_names(handler.stations))

RunUniqIbnr ==
    /\ pc = "run" /\ Len(report) = 2
    /\ RunGroup("verify_uniq_ibnr",
                IF program = "scripts" THEN verify_uniq_ibnr(handler.stations)
                ELSE legacy_verify_uniq_ibnr(handler.stations))

RunOtherAttributes ==
    /\ pc = "run" /\ Len(report) = 3
    /\ RunGroup("verify_other_attributes", verify_other_attributes(handler.stations))

BuildStationsMap ==
    /\ pc = "run" /\ Len(report) = 4 /\ stations_map = None
    /\ stations_map' = Some(build_stations_map(handler.stations))
    /\ UNCHANGED <<program, open, nchildren, document, handler, pc, ok, report,
                   exit_code, traceback, hints_in, hints_out,
                   lookup_by_pkpplk, lookup_by_ibnr, rerun>>

RunPlatforms ==
    /\ pc = "run" /\ Len(report) = 4 /\ stations_map # None
    /\ RunGroup("verify_platforms",
                IF program = "scripts"
                THEN verify_platforms(stations_map[1], handler.platforms)
                ELSE legacy_verify_platforms(stations_map[1], handler.platforms))

RunStopPositions ==
    /\ pc = "run" /\ program = "scripts" /\ Len(report) = 5
    /\ RunGroup("verify_stop_positions",
                verify_stop_positions(stations_map[1], handler.stop_positions))

RunBusStops ==
    /\ pc = "run" /\ program = "scripts" /\ Len(report) = 6
    /\ RunGroup("verify_bus_stops",
                verify_bus_stops(stations_map[1], handler.bus_stops))

\* sys.exit(0 if ok else 1)
Exit ==
    /\ pc = "run" /\ Len(report) = group_count(program)
    /\ pc' = "exited"
    /\ exit_code' = Some(IF ok THEN 0 ELSE 1)
    /\ UNCHANGED <<program, open, nchildren, document, handler, stations_map, ok, report,
                   traceback, hints_in, hints_out,
                   lookup_by_pkpplk, lookup_by_ibnr, rerun>>

Run ==
    \/ RunUniqPkpplk \/ RunUniqNames \/ RunUniqIbnr \/ RunOtherAttributes
    \/ BuildStationsMap \/ RunPlatforms \/ RunStopPositions \/ RunBusStops
    \/ Exit

(***************************************************************************)
(* The whole program: a document is streamed to the loader, then main runs *)
(* the rule groups.                                                        *)
(***************************************************************************)
Init ==
    /\ program \in Programs
    /\ open = None /\ nchildren = 0
    /\ document = <<>>
    /\ handler = new_handler(program)
    /\ pc = "parsing"
    /\ stations_map = None
    /\ ok = TRUE
    /\ report = <<>>
    /\ exit_code = None
    /\ traceback = "none"
    /\ hints_in = <<>>
    /\ hints_out = None
    /\ lookup_by_pkpplk = None
    /\ lookup_by_ibnr = None
    /\ rerun = [begun |-> {}, ended |-> {}, ok |-> TRUE]

Next ==
    \/ StartNode \/ StartWay \/ StartRelation \/ Tag \/ Nd \/ EndElement
    \/ EndDocument
    \/ Run

Spec == Init /\ [][Next]_vars

(***************************************************************************)
(* Loading a document of nodes in one step, for the specifications that    *)
(* are about main and the rule groups.  A node is its attributes and its   *)
(* tags in file order.                                                     *)
(***************************************************************************)
\* the events of one node, each handled on the handler the previous one left
load_node(prog, self, node) ==
    LET tagged[n \in 0..Len(node.tags)] ==
            IF n = 0 THEN start_element(prog, self, "node", node.attrs).self
            ELSE CHOOSE after \in
                     {end_element(prog, started, "tag").self :
                          started \in {start_element(prog, before, "tag",
                                           [k |-> node.tags[n][1],
                                            v |-> node.tags[n][2]]).self :
                                           before \in {tagged[n - 1]}}} : TRUE
    IN CHOOSE after \in {end_element(prog, before, "node").self :
                             before \in {tagged[Len(node.tags)]}} : TRUE

load_nodes(prog, nodes) ==
    LET loaded[n \in 0..Len(nodes)] ==
            IF n = 0 THEN new_handler(prog)
            ELSE CHOOSE after \in {load_node(prog, before, nodes[n]) :
                                       before \in {loaded[n - 1]}} : TRUE
    IN loaded[Len(nodes)]

node_at(k, lat, tags) ==
    [attrs |-> [id |-> ToString(k), lat |-> lat, lon |-> lon_attr(k)], tags |-> tags]

\* load_all on a whole document of nodes, as one step
LoadAll(nodes) ==
    /\ pc = "parsing" /\ open = None /\ document = <<>>
    /\ handler' = load_nodes(program, nodes)
    /\ pc' = "run"
    /\ UNCHANGED <<program, open, nchildren, document, stations_map, ok, report,
                   exit_code, traceback, hints_in, hints_out,
                   lookup_by_pkpplk, lookup_by_ibnr, rerun>>

(***************************************************************************)
(* The rule groups on every short list of stations.                        *)
(***************************************************************************)
MaxStations == 3     \* stations of a drawn station list

StationNames == {"A", "B"}
StationCodes == {"33506", "34868"}
StationIbnrs == {None, Some("404"), Some("5")}

station_node(k, name, code, ibnr) ==
    node_at(k, lat_attr(k),
            <<<<"railway", "station">>, <<"name", name>>, <<"ref", code>>>>
            \o (IF ibnr = None THEN <<>> ELSE <<<<"ref:ibnr", ibnr[1]>>>>))

StationLists ==
    UNION {[1..n -> StationNames \X StationCodes \X StationIbnrs] : n \in 0..MaxStations}

LoadStations ==
    /\ pc = "parsing"
    /\ \E list \in StationLists :
          LoadAll([k \in DOMAIN list |->
                      station_node(k, list[k][1], list[k][2], list[k][3])])

SpecUniq == Init /\ [][LoadStations \/ Run]_vars

(***************************************************************************)
(* main on documents with two stations, a platform, a stop position and a  *)
(* bus stop, each drawn so that its rule group passes or fails.            *)
(***************************************************************************)
RunDocuments ==
    {<<node_at(1, "52.0000",
               <<<<"railway", "station">>, <<"name", "A">>, <<"ref", "33506">>,
                 <<"ref:ibnr", "404">>>> \o wheelchair),
       station_node(2, name, code, ibnr),
       node_at(3, platform_lat,
               <<<<"public_transport", "platform">>, <<"name", "1">>,
                 <<"ref:station", platform_station>>, <<"direction", platform_hints>>>>),
       node_at(4, "52.0001",
               <<<<"public_transport", "stop_position">>,
                 <<"ref:station", stop_station>>, <<"platforms", "1">>>> \o towards),
       node_at(5, "52.0002",
               <<<<"highway", "bus_stop">>, <<"ref:station", "33506">>,
                 <<"direction", bus_hints>>>>)>> :
        wheelchair \in {<<>>, <<<<"wheelchair", "maybe">>>>},
        name \in StationNames, code \in StationCodes,
        ibnr \in {None, Some("404")},
        platform_lat \in {"52.0003", "52.0020", "nan"},
        platform_station \in {"33506", "9"},
        platform_hints \in {"*", "N"},
        stop_station \in {"33506", "9"},
        towards \in {<<>>, <<<<"towards", "fallback">>>>, <<<<"towards", "34868;9">>>>},
        bus_hints \in {"", "*", "N;S"}}

LoadRunDocument ==
    /\ pc = "parsing"
    /\ \E nodes \in RunDocuments : LoadAll(nodes)

SpecRun == Init /\ [][LoadRunDocument \/ Run]_vars

(***************************************************************************)
(* A direct call of the shared direction-hint rule set on every short      *)
(* sequence of hints.                                                      *)
(***************************************************************************)
MaxHints == 3        \* hints of a drawn hint sequence

HintTokens == {"*", "T", "N", "S", "X"}

HintSequences == UNION {[1..n -> HintTokens] : n \in 0..MaxHints}

CallValidateHints ==
    /\ pc = "parsing" /\ open = None /\ document = <<>>
    /\ \E hints \in HintSequences : hints_in' = Counter(hints)
    /\ pc' = "call"
    /\ UNCHANGED <<program, open, nchildren, document, handler, stations_map, ok,
                   report, exit_code, traceback, hints_out,
                   lookup_by_pkpplk, lookup_by_ibnr, rerun>>

ValidateHints ==
    /\ pc = "call"
    /\ pc' = "returned"
    /\ hints_out' = Some(IF program = "scripts"
                         THEN validate_station_direction_hints(hints_in)
                         ELSE legacy_direction_hint_issues(hints_in))
    /\ UNCHANGED <<program, open, nchildren, document, handler, stations_map, ok,
                   report, exit_code, traceback, hints_in,
                   lookup_by_pkpplk, lookup_by_ibnr, rerun>>

SpecHints == Init /\ [][CallValidateHints \/ ValidateHints]_vars

(***************************************************************************)
(* Properties.  The vocabulary below speaks of the document as the parser  *)
(* read it and of what main printed, not of the handler's own fields.      *)
(***************************************************************************)
\* the rule groups in the order main names them
group_names(prog) ==
    IF prog = "scripts"
    THEN <<"verify_uniq_pkpplk", "verify_uniq_names", "verify_uniq_ibnr",
           "verify_other_attributes", "verify_platforms", "verify_stop_positions",
           "verify_bus_stops">>
    ELSE <<"verify_uniq_pkpplk", "verify_uniq_names", "verify_uniq_ibnr",
           "verify_other_attributes", "verify_platforms">>

all_passed == \A i \in DOMAIN report : report[i].ok

\* C1: in the main run the rule groups are evaluated in declaration order, each
\* of them whatever the earlier ones returned, and the process ends with 0
\* exactly when every group passed and with a non-zero status otherwise.
C1_EveryGroupRuns ==
    /\ pc \in {"run", "exited"} =>
          /\ Len(report) <= Len(group_names(program))
          /\ \A i \in DOMAIN report : report[i].group = group_names(program)[i]
          /\ ok = all_passed
    /\ pc = "run" => exit_code = None
    /\ pc = "exited" =>
          /\ Len(report) = Len(group_names(program))
          /\ exit_code # None
          /\ (exit_code = Some(0)) = all_passed
          /\ (exit_code[1] # 0) = ~all_passed

\* the first group failed, the last one ran all the same and passed
C1_RanAfterFailure ==
    /\ program = "scripts" /\ pc = "exited"
    /\ Len(report) = 7
    /\ ~report[1].ok /\ report[7].ok
    /\ exit_code = Some(1)

\* a key that starts with the reserved character
is_reserved(key) == startswith(key, "_")

has_reserved_key(element) == \E key \in element.keys : is_reserved(key)

\* the elements whose tags the loader of the program collects
collects_tags(prog, el) == el = "node" \/ (prog = "scripts" /\ el = "way")

\* C2, as stated: a tag whose key starts with '_' is fatal wherever it stands
\* in the document; no rule group runs or reports anything.
C2_AnyReservedKeyIsFatal ==
    (open # None /\ has_reserved_key(open[1])) =>
        (pc = "aborted" /\ report = <<>>)

\* C2, amended: a tag whose key starts with '_' is fatal when it stands in a
\* node or, for scripts/loader.py, in a way: the load ends with a ValueError
\* and the status 1, and no rule group runs or reports anything.  In any
\* other element (a relation; a way, for verify.py) the tag is passed over
\* and the load goes on.
C2_ReservedKeyInFeatureIsFatal ==
    /\ (open # None /\ has_reserved_key(open[1])) =>
          IF collects_tags(program, open[1].el)
          THEN /\ pc = "aborted" /\ traceback = "ValueError"
               /\ exit_code = Some(1)
               /\ report = <<>> /\ stations_map = None
          ELSE pc = "parsing" /\ traceback = "none"
    /\ pc = "aborted" => (report = <<>> /\ exit_code = Some(1))

\* a reserved key in the second element of a document, a way, ended the load
C2_AbortedInWay ==
    /\ program = "scripts" /\ pc = "aborted" /\ traceback = "ValueError"
    /\ open # None /\ open[1].el = "way" /\ has_reserved_key(open[1])
    /\ Len(document) = 1

\* the node open is one the loader classifies, and a tag its class requires
\* was not read
lacks_required(prog, element) ==
    /\ element.el = "node"
    /\ \/ /\ element.railway = Some("station")
          /\ ~({"name", "ref"} \subseteq element.keys)
       \/ /\ element.railway # Some("station")
          /\ element.public_transport = Some("platform")
          /\ "name" \notin element.keys
       \/ /\ prog = "scripts"
          /\ element.railway # Some("station")
          /\ element.public_transport = Some("stop_position")
          /\ "ref:station" \notin element.keys

\* the ids of the entities in a station-keyed mapping
ids_in(mapping) ==
    UNION {{mapping[g].val[i].id : i \in DOMAIN mapping[g].val} : g \in DOMAIN mapping}

\* the ids of the entities the handler holds
entity_ids(prog, self) ==
    {self.stations[i].id : i \in DOMAIN self.stations}
    \cup ids_in(self.platforms)
    \cup (IF prog = "scripts"
          THEN ids_in(self.stop_positions) \cup ids_in(self.bus_stops)
          ELSE {})

\* C3: when a node closes that is a station without a name or without a ref,
\* a platform without a name or (scripts/loader.py) a stop position without
\* ref:station, the load ends there with a KeyError and the status 1: the
\* node gives no entity and the load never completes.
C3_MissingRequiredIsFatal ==
    [][(pc = "parsing" /\ open # None /\ lacks_required(program, open[1])
        /\ EndElement)
       => (/\ pc' = "aborted" /\ traceback' = "KeyError" /\ exit_code' = Some(1)
           /\ report' = <<>>
           /\ open[1].id \notin entity_ids(program, handler'))]_vars

\* a station with a ref and no name ended the load
C3_StationWithoutName ==
    /\ pc = "aborted" /\ traceback = "KeyError"
    /\ open # None /\ open[1].el = "node"
    /\ open[1].railway = Some("station")
    /\ open[1].keys = {"railway", "ref"}
    /\ open[1].id \notin entity_ids(program, handler)

is_station(element) == element.el = "node" /\ element.railway = Some("station")

is_stop_position(element) ==
    /\ element.el = "node"
    /\ element.railway # Some("station")
    /\ element.public_transport = Some("stop_position")

is_rail_way(element) == element.el = "way" /\ element.railway = Some("rail")

\* the document may end here: no element is open
at_end_of_document == program = "scripts" /\ pc = "parsing" /\ open = None

\* C4: where the document may end, a station followed later by a rail way
\* whose points hold its id is not in dangling_nodes, and a station whose id
\* no rail way of the document holds is in dangling_nodes.
C4_StationsAndRailWays ==
    at_end_of_document =>
        \A i \in DOMAIN document :
            is_station(document[i]) =>
                /\ (\E j \in (i + 1)..Len(document) :
                        /\ is_rail_way(document[j])
                        /\ document[i].id \in Range(document[j].nds))
                   => document[i].id \notin handler.dangling_nodes
                /\ (~\E j \in DOMAIN document :
                        /\ is_rail_way(document[j])
                        /\ document[i].id \in Range(document[j].nds))
                   => document[i].id \in handler.dangling_nodes

\* a station, then a rail way through it: the station is not dangling
C4_StationThenRailWay ==
    /\ at_end_of_document
    /\ Len(document) = 2
    /\ is_station(document[1])
    /\ is_rail_way(document[2])
    /\ document[1].id \in Range(document[2].nds)
    /\ handler.dangling_nodes = {}

\* C5, as stated: where the document may end, dangling_nodes is exactly the
\* set of the ids of the station and stop position nodes of the document
\* that no rail way of the document lists among its points, in whatever
\* order the nodes and the ways stand.
C5_DanglingExactly ==
    at_end_of_document =>
        handler.dangling_nodes =
            {document[i].id : i \in
                {i \in DOMAIN document :
                    /\ is_station(document[i]) \/ is_stop_position(document[i])
                    /\ ~\E j \in DOMAIN document :
                          /\ is_rail_way(document[j])
                          /\ document[i].id \in Range(document[j].nds)}}

\* the stations of the dataset that share the field with another station
sharing(stations, field) ==
    {i \in DOMAIN stations :
        \E j \in DOMAIN stations : j # i /\ stations[j][field] = stations[i][field]}

\* the stations that have the field of station i, station i among them
group_of(stations, field, i) ==
    {j \in DOMAIN stations : stations[j][field] = stations[i][field]}

\* the station a row is about
station_of(rows, stations, k) ==
    stations[CHOOSE i \in DOMAIN stations : stations[i].id = rows[k][1]]

\* the rows name exactly the stations of the set, each once and with its ref
\* and name, and the rows of the stations that share the field stand together
reports_exactly(rows, stations, field, reported) ==
    /\ Len(rows) = Cardinality(reported)
    /\ {rows[k][1] : k \in DOMAIN rows} = {stations[i].id : i \in reported}
    /\ \A k \in DOMAIN rows :
           /\ rows[k][2] = station_of(rows, stations, k).pkpplk
           /\ rows[k][4] = station_of(rows, stations, k).name
    /\ \A a, c \in DOMAIN rows :
           (/\ a < c
            /\ station_of(rows, stations, a)[field] = station_of(rows, stations, c)[field])
           => \A b \in a..c :
                  station_of(rows, stations, b)[field] = station_of(rows, stations, a)[field]

\* C6: verify_uniq_pkpplk passes on every station list in which no two
\* stations share a ref, and on every other list it fails and reports, for
\* each shared ref, the stations that carry it: all of them, and no station
\* whose ref is its own.
C6_UniqPkpplk ==
    Len(report) >= 1 =>
        LET reported == sharing(handler.stations, "pkpplk") IN
        /\ report[1].group = "verify_uniq_pkpplk"
        /\ report[1].ok = (reported = {})
        /\ reports_exactly(report[1].out, handler.stations, "pkpplk", reported)

\* of three stations two share a ref: the two are reported, the third is not
C6_TwoOfThreeReported ==
    /\ Len(report) >= 1
    /\ Len(handler.stations) = 3
    /\ Cardinality(sharing(handler.stations, "pkpplk")) = 2
    /\ ~report[1].ok
    /\ Len(report[1].out) = 2

\* the name collisions verify.py lets through: every station of the group
\* has the ibnr 404
name_collision_allowed(stations, i) ==
    \A j \in group_of(stations, "name", i) : stations[j].ibnr = Some("404")

sharing_ibnr(stations) ==
    {i \in sharing(stations, "ibnr") : stations[i].ibnr # None}

\* the ibnr collision verify.py lets through: two stations, with the refs
\* 33506 and 34868
ibnr_collision_allowed(stations, i) ==
    /\ Cardinality(group_of(stations, "ibnr", i)) = 2
    /\ {stations[j].pkpplk : j \in group_of(stations, "ibnr", i)} = {"33506", "34868"}

given(pairs) == {<<hints_in[i].key, hints_in[i].val>> : i \in DOMAIN hints_in} = pairs

\* the violations of the call that returned
issues == hints_out[1]

\* the wording of the clash and of the lone terminus in the two programs
clash_with(prog, hint) ==
    (IF prog = "scripts" THEN "Uses both the * and " ELSE "Station uses both the * and ")
    \o hint \o " hints"

only_terminus(prog) ==
    IF prog = "scripts" THEN "Only the T hint is present" ELSE "Only the T is present"

\* the violation that names a hint and the times it is used
used_times(hint, count) == "Hint " \o hint \o " used " \o ToString(count) \o " times"

\* C9: the direction-hint rules give: on {*} no violation; on {N} the
\* violation "Only one heading hint is used"; on {N, S} no violation; on
\* {*, N} a violation that names the clash of * and N; on {T} alone a
\* violation; on {T, N, S} no violation; on {N, N} the violation
\* "Hint N used 2 times".
C9_HintCases ==
    pc = "returned" =>
        /\ given({<<"*", 1>>}) => issues = <<>>
        /\ given({<<"N", 1>>}) => issues = <<"Only one heading hint is used">>
        /\ given({<<"N", 1>>, <<"S", 1>>}) => issues = <<>>
        /\ given({<<"*", 1>>, <<"N", 1>>}) => issues = <<clash_with(program, "N")>>
        /\ given({<<"T", 1>>}) =>
               /\ issues # <<>>
               /\ only_terminus(program) \in Range(issues)
        /\ given({<<"T", 1>>, <<"N", 1>>, <<"S", 1>>}) => issues = <<>>
        /\ given({<<"N", 2>>}) => used_times("N", 2) \in Range(issues)

\* the call on {*, N} returned the clash and nothing else
C9_ClashReturned ==
    /\ pc = "returned"
    /\ given({<<"*", 1>>, <<"N", 1>>})
    /\ Len(issues) = 1

\* C10, as stated: whatever hints are given, every token given more than
\* once gets a violation that names it and its count.
C10_EveryRepeatCounted ==
    pc = "returned" =>
        \A i \in DOMAIN hints_in :
            hints_in[i].val > 1 =>
                used_times(hints_in[i].key, hints_in[i].val) \in Range(issues)

\* the repeated tokens that get no count: the tokens that are no valid hint,
\* and the headings given next to the wildcard
repeat_not_counted(hint) ==
    \/ hint \notin VALID_HINTS
    \/ hint \in HEADING_HINTS /\ \E i \in DOMAIN hints_in : hints_in[i].key = "*"

\* C10, amended: whatever hints are given, every valid hint given more than
\* once gets a violation that names it and its count, unless it is a heading
\* given next to the wildcard.  A repeated token that is no valid hint gets
\* the invalid-hint violation and no count; a repeated heading next to the
\* wildcard gets the clash violation and no count.
C10_ValidRepeatCounted ==
    pc = "returned" =>
        \A i \in DOMAIN hints_in :
            hints_in[i].val > 1 =>
                LET hint == hints_in[i].key
                    counted == used_times(hint, hints_in[i].val) \in Range(issues)
                IN IF ~repeat_not_counted(hint) THEN counted
                   ELSE /\ ~counted
                        /\ hint \notin VALID_HINTS =>
                               ("Invalid direction hint used: " \o hint) \in Range(issues)
                        /\ hint \in VALID_HINTS =>
                               clash_with(program, hint) \in Range(issues)

\* T given twice and N once: the count of T is among the violations
C10_TerminusTwice ==
    /\ pc = "returned"
    /\ given({<<"T", 2>>, <<"N", 1>>})
    /\ used_times("T", 2) \in Range(issues)

\* the tokens given, each once
tokens_given == {hints_in[i].key : i \in DOMAIN hints_in}

\* C11: on every hint multiset that is not empty, has no wildcard and has
\* fewer than two distinct headings, the direction-hint rules report
\* "Only one heading hint is used"; on the empty multiset they report
\* nothing.
C11_FewerThanTwoHeadings ==
    pc = "returned" =>
        /\ hints_in = <<>> => issues = <<>>
        /\ (/\ hints_in # <<>>
            /\ "*" \notin tokens_given
            /\ Cardinality(tokens_given \cap HEADING_HINTS) < 2)
           => "Only one heading hint is used" \in Range(issues)

\* one heading given twice next to the terminus: one distinct heading only
C11_OneHeadingTwice ==
    /\ pc = "returned"
    /\ given({<<"S", 2>>, <<"T", 1>>})
    /\ "Only one heading hint is used" \in Range(issues)

(***************************************************************************)
(* main on documents with one or two stations followed by a few platforms, *)
(* stop positions and bus stops, some of them naming a station code that   *)
(* no station has.                                                         *)
(***************************************************************************)
MaxEntities == 2     \* platforms, stop positions and bus stops of a drawn document

EntityChoices ==
    {[kind |-> "platform", lat |-> lat, station |-> station, value |-> "1"] :
        lat \in {"52.0009", "52.0010", "nan"}, station \in {"33506", "9"}}
    \cup {[kind |-> "stop_position", lat |-> "52.0001", station |-> station,
           value |-> towards] :
        station \in {"33506", "9"}, towards \in {"", "fallback"}}
    \cup {[kind |-> "bus_stop", lat |-> "52.0001", station |-> "33506",
           value |-> hints] : hints \in {"", "*", "N", "*;*"}}
    \cup {[kind |-> "bus_stop", lat |-> "52.0001", station |-> "9", value |-> hints] :
        hints \in {"", "N"}}

\* a second station: none, one with the code of the first, one with its own
SecondStations == {<<>>, <<[code |-> "33506"]>>, <<[code |-> "34868"]>>}

entity_node(k, e) ==
    IF e.kind = "platform" THEN
        node_at(k, e.lat, <<<<"public_transport", "platform">>, <<"name", e.value>>,
                            <<"ref:station", e.station>>>>)
    ELSE IF e.kind = "stop_position" THEN
        node_at(k, e.lat, <<<<"public_transport", "stop_position">>,
                            <<"ref:station", e.station>>, <<"platforms", "1">>>>
                          \o (IF e.value = "" THEN <<>>
                              ELSE <<<<"towards", e.value>>>>))
    ELSE node_at(k, e.lat, <<<<"highway", "bus_stop">>, <<"ref:station", e.station>>,
                             <<"direction", e.value>>>>)

entity_document(second, entities) ==
    LET station_nodes ==
            <<node_at(1, "52.0000", <<<<"railway", "station">>, <<"name", "A">>,
                                      <<"ref", "33506">>>>)>>
            \o [i \in DOMAIN second |->
                   node_at(2, "52.0011", <<<<"railway", "station">>, <<"name", "B">>,
                                           <<"ref", second[i].code>>>>)]
    IN station_nodes
       \o [k \in DOMAIN entities |-> entity_node(Len(station_nodes) + k, entities[k])]

LoadEntityDocument ==
    /\ pc = "parsing"
    /\ \E second \in SecondStations :
       \E entities \in UNION {[1..n -> EntityChoices] : n \in 0..MaxEntities} :
          LoadAll(entity_document(second, entities))

SpecEntities == Init /\ [][LoadEntityDocument \/ Run]_vars

\* the rule group has run; what it returned and printed
ran(name) == \E i \in DOMAIN report : report[i].group = name
result_of(name) == report[CHOOSE i \in DOMAIN report : report[i].group = name]
times_printed(out, line) == Cardinality({i \in DOMAIN out : out[i] = line})

\* some loaded station has this registry code
resolves(code) == \E i \in DOMAIN handler.stations : handler.stations[i].pkpplk = code

fallback_count(group) ==
    Cardinality({i \in DOMAIN group.val : group.val[i].towards = "fallback"})
fallback_line(n) ==
    "    Got " \o ToString(n) \o " \"towards=fallback\" Stop Positions, expected exactly 1"
fallback_lines(out) == {i \in DOMAIN out : startswith(out[i], "    Got ")}

\* C12 as stated: every stop-position group with no or with several fallback
\* stop positions gets a violation stating that count and the rule group
\* fails; a group with exactly one gets none.
C12_FallbackCountOfEveryGroup ==
    ran("verify_stop_positions") =>
        LET result == result_of("verify_stop_positions")
            groups == handler.stop_positions
            wrong == {g \in DOMAIN groups : fallback_count(groups[g]) # 1}
        IN /\ \A g \in wrong :
                  times_printed(result.out, fallback_line(fallback_count(groups[g])))
                  = Cardinality({h \in wrong : fallback_count(groups[h])
                                                = fallback_count(groups[g])})
           /\ Cardinality(fallback_lines(result.out)) = Cardinality(wrong)
           /\ wrong # {} => ~result.ok

\* C12: every stop-position group whose station code is the code of a loaded
\* station, and which has no or several fallback stop positions, gets a
\* violation stating that count and the rule group fails; no other group
\* gets a violation of this rule.
C12_FallbackCountOfResolvedGroups ==
    ran("verify_stop_positions") =>
        LET result == result_of("verify_stop_positions")
            groups == handler.stop_positions
            wrong == {g \in DOMAIN groups : /\ resolves(groups[g].key)
                                            /\ fallback_count(groups[g]) # 1}
        IN /\ \A g \in wrong :
                  times_printed(result.out, fallback_line(fallback_count(groups[g])))
                  = Cardinality({h \in wrong : fallback_count(groups[h])
                                                = fallback_count(groups[g])})
           /\ Cardinality(fallback_lines(result.out)) = Cardinality(wrong)
           /\ wrong # {} => ~result.ok

\* two fallback stop positions of one station
C12_TwoFallbacks ==
    /\ ran("verify_stop_positions")
    /\ \E g \in DOMAIN handler.stop_positions :
          /\ resolves(handler.stop_positions[g].key)
          /\ fallback_count(handler.stop_positions[g]) = 2
    /\ fallback_line(2) \in Range(result_of("verify_stop_positions").out)

\* the platforms of the groups whose station code is known, with the
\* distance of each from the station its code stands for
located_platforms ==
    UNION {{[group |-> g, at |-> i,
             platform |-> handler.platforms[g].val[i],
             distance |-> distance(handler.platforms[g].val[i].position,
                                   stations_map[1][handler.platforms[g].key].position)] :
               i \in DOMAIN handler.platforms[g].val} :
           g \in {h \in DOMAIN handler.platforms : resolves(handler.platforms[h].key)}}

beyond_threshold(d) == d.nan \/ d.val > 100 * 1000
proximity_line(p) ==
    "    Platform " \o p.platform.name \o ": is " \o format_metres(p.distance)
    \o " away from the station node"
endswith(s, suffix) ==
    /\ Len(s) >= Len(suffix)
    /\ SubSeq(s, Len(s) - Len(suffix) + 1, Len(s)) = suffix
proximity_lines(out) ==
    {i \in DOMAIN out : /\ startswith(out[i], "    Platform ")
                        /\ endswith(out[i], " away from the station node")}

\* C13: a platform more than 100 m from its station, or at a distance that
\* is not a number, is reported by the platform rule group, which fails; a
\* platform at 100 m or less is not reported by the proximity rule.
C13_FarPlatformsReported ==
    (program = "scripts" /\ ran("verify_platforms")) =>
        LET result == result_of("verify_platforms")
            far == {p \in located_platforms : beyond_threshold(p.distance)}
        IN /\ \A p \in far : proximity_line(p) \in Range(result.out)
           /\ \A p \in located_platforms \ far :
                  proximity_line(p) \notin Range(result.out)
           /\ Cardinality(proximity_lines(result.out)) = Cardinality(far)
           /\ far # {} => ~result.ok

\* a platform whose latitude is not a number is reported
C13_NanPlatformReported ==
    /\ program = "scripts" /\ ran("verify_platforms")
    /\ \E p \in located_platforms : p.distance.nan
    /\ "    Platform 1: is nan m away from the station node"
           \in Range(result_of("verify_platforms").out)

\* the three rule groups over entities that name a station, the mapping each
\* reads and the words it uses for its entities
entity_rule_groups == {"verify_platforms", "verify_stop_positions", "verify_bus_stops"}
entities_of(name) ==
    CASE name = "verify_platforms" -> handler.platforms
      [] name = "verify_stop_positions" -> handler.stop_positions
      [] name = "verify_bus_stops" -> handler.bus_stops
words_of(name) ==
    CASE name = "verify_platforms" -> "platforms"
      [] name = "verify_stop_positions" -> "stop positions"
      [] name = "verify_bus_stops" -> "bus stops"
reference_lines(out, code) ==
    {i \in DOMAIN out : startswith(out[i], "Invalid reference to station " \o code \o " ")}

\* C14: in the platform, stop-position and bus-stop rule groups every
\* station code that no loaded station has gets exactly one violation, which
\* lists the identifiers of all the entities naming the code, and the rule
\* group fails.
C14_OneViolationPerUnknownCode ==
    \A name \in entity_rule_groups :
        ran(name) =>
            LET result == result_of(name)
                groups == entities_of(name)
            IN \A g \in DOMAIN groups :
                   ~resolves(groups[g].key) =>
                       /\ Cardinality(reference_lines(result.out, groups[g].key)) = 1
                       /\ ("Invalid reference to station " \o groups[g].key \o " from "
                           \o words_of(name) \o ": "
                           \o join(", ", sorted_ids(groups[g].val)))
                              \in Range(result.out)
                       /\ ~result.ok

\* two platforms naming a code no station has: one violation listing both
C14_TwoPlatformsOneViolation ==
    /\ ran("verify_platforms")
    /\ \E g \in DOMAIN handler.platforms :
          /\ ~resolves(handler.platforms[g].key)
          /\ Len(handler.platforms[g].val) = 2
    /\ result_of("verify_platforms").out
           = <<"Invalid reference to station 9 from platforms: 2, 3">>

\* the groups of bus stops that are the only bus stop of a loaded station
only_bus_stops ==
    {g \in DOMAIN handler.bus_stops : /\ resolves(handler.bus_stops[g].key)
                                      /\ Len(handler.bus_stops[g].val) = 1}
coverage_line(hints) ==
    "    The only bus stop has incomplete direction hint coverage: "
    \o join(";", hints) \o ". Expected no hints, or sole * hint."
coverage_lines(out) ==
    {i \in DOMAIN out :
        startswith(out[i], "    The only bus stop has incomplete direction hint coverage")}

\* C15: for a station with exactly one bus stop the bus-stop rule group
\* reports no hint-coverage violation when the stop's hint list is empty or
\* holds only the wildcard, and reports one for any other list.
C15_OnlyBusStopCoverage ==
    (program = "scripts" /\ ran("verify_bus_stops")) =>
        LET result == result_of("verify_bus_stops")
            hints_of(g) == handler.bus_stops[g].val[1].direction_hints
            incomplete == {g \in only_bus_stops : hints_of(g) \notin {<<>>, <<"*">>}}
        IN /\ \A g \in incomplete :
                  /\ coverage_line(hints_of(g)) \in Range(result.out)
                  /\ ~result.ok
           /\ Cardinality(coverage_lines(result.out)) = Cardinality(incomplete)

\* an only bus stop with the wildcard twice is reported
C15_WildcardTwiceReported ==
    /\ program = "scripts" /\ ran("verify_bus_stops")
    /\ \E g \in only_bus_stops :
          handler.bus_stops[g].val[1].direction_hints = <<"*", "*">>
    /\ coverage_line(<<"*", "*">>) \in Range(result_of("verify_bus_stops").out)

(***************************************************************************)
(* scripts/compare_stops.py: main loads the stations and builds its two    *)
(* lookups.  The station lists drawn here have empty codes as well.        *)
(***************************************************************************)
has_pkpplk(i) == i.pkpplk # ""
has_nonempty_ibnr(i) == i.ibnr # None /\ i.ibnr[1] # ""

\* {i.pkpplk: i for i in all_stations if i.pkpplk}
build_stations_by_pkpplk(all_stations) ==
    LET coded == SelectSeq(all_stations, has_pkpplk) IN
    [code \in {coded[i].pkpplk : i \in DOMAIN coded} |->
        coded[CHOOSE i \in DOMAIN coded :
            /\ coded[i].pkpplk = code
            /\ \A j \in DOMAIN coded : coded[j].pkpplk = code => j <= i]]

\* {i.ibnr: i for i in all_stations if i.ibnr}
build_stations_by_ibnr(all_stations) ==
    LET coded == SelectSeq(all_stations, has_nonempty_ibnr) IN
    [code \in {coded[i].ibnr[1] : i \in DOMAIN coded} |->
        coded[CHOOSE i \in DOMAIN coded :
            /\ coded[i].ibnr[1] = code
            /\ \A j \in DOMAIN coded : coded[j].ibnr[1] = code => j <= i]]

CodedStationLists ==
    UNION {[1..n -> {"", "33506", "34868"} \X {None, Some(""), Some("404")}] :
               n \in 0..MaxStations}

LoadCodedStations ==
    /\ pc = "parsing" /\ program = "scripts"
    /\ \E list \in CodedStationLists :
          LoadAll([k \in DOMAIN list |-> station_node(k, "A", list[k][1], list[k][2])])

BuildLookups ==
    /\ pc = "run" /\ lookup_by_pkpplk = None
    /\ lookup_by_pkpplk' = Some(build_stations_by_pkpplk(handler.stations))
    /\ lookup_by_ibnr' = Some(build_stations_by_ibnr(handler.stations))
    /\ pc' = "compare"
    /\ UNCHANGED <<program, open, nchildren, document, handler, stations_map, ok,
                   report, exit_code, traceback, hints_in, hints_out, rerun>>

SpecCompare == Init /\ [][LoadCodedStations \/ BuildLookups]_vars

\* the loaded stations with a registry code, with an international code
with_pkpplk == {i \in DOMAIN handler.stations : handler.stations[i].pkpplk # ""}
with_ibnr ==
    {i \in DOMAIN handler.stations : handler.stations[i].ibnr \notin {None, Some("")}}

\* C16: the two lookups hold exactly the loaded stations with a non-empty
\* code, each once, none lost.
C16_NoStationLost ==
    pc = "compare" =>
        /\ Range(lookup_by_pkpplk[1]) = {handler.stations[i] : i \in with_pkpplk}
        /\ Cardinality(DOMAIN lookup_by_pkpplk[1]) = Cardinality(with_pkpplk)
        /\ Range(lookup_by_ibnr[1]) = {handler.stations[i] : i \in with_ibnr}
        /\ Cardinality(DOMAIN lookup_by_ibnr[1]) = Cardinality(with_ibnr)

\* the entities a handler holds, list by list and group by group
entity_lists(h) ==
    [stations |-> <<[key |-> "", val |-> h.stations]>>,
     platforms |-> h.platforms,
     stop_positions |-> IF program = "scripts" THEN h.stop_positions ELSE <<>>,
     bus_stops |-> IF program = "scripts" THEN h.bus_stops ELSE <<>>]
list_names == {"stations", "platforms", "stop_positions", "bus_stops"}
entity_count(h) ==
    Cardinality({<<n, g, i>> \in list_names \X (1..MaxElements) \X (1..MaxElements) :
                    /\ g \in DOMAIN entity_lists(h)[n]
                    /\ i \in DOMAIN entity_lists(h)[n][g].val})
all_ids(h) ==
    UNION {{entity_lists(h)[n][g].val[i].id : i \in DOMAIN entity_lists(h)[n][g].val} :
              <<n, g>> \in {ng \in list_names \X (1..MaxElements) :
                               ng[2] \in DOMAIN entity_lists(h)[ng[1]]}}
\* every entity of h is in later, at its place and with all its fields
entities_kept(h, later) ==
    \A n \in list_names :
        \A g \in DOMAIN entity_lists(h)[n] :
            /\ g \in DOMAIN entity_lists(later)[n]
            /\ entity_lists(later)[n][g].key = entity_lists(h)[n][g].key
            /\ \A i \in DOMAIN entity_lists(h)[n][g].val :
                   /\ i \in DOMAIN entity_lists(later)[n][g].val
                   /\ entity_lists(later)[n][g].val[i] = entity_lists(h)[n][g].val[i]

\* C17: an entity is created only by the step that closes a node, one entity
\* at most and with the id of that node, which no entity had before; no
\* step, of the loader or of a rule group, changes a field of an entity that
\* exists, its other_tags included.
C17_EntitiesCreatedOnceAndKept ==
    [][\/ entity_lists(handler') = entity_lists(handler)
       \/ /\ entities_kept(handler, handler')
          /\ entity_count(handler') # entity_count(handler) =>
                 /\ entity_count(handler') = entity_count(handler) + 1
                 /\ open # None /\ open[1].el = "node" /\ open' = None
                 /\ all_ids(handler') = all_ids(handler) \cup {open[1].id}
                 /\ open[1].id \notin all_ids(handler)]_vars

\* a tag of a relation was read after a station was made: the station's
\* other_tags are as they were
C17_RelationTagAfterStation ==
    /\ pc = "parsing"
    /\ Len(handler.stations) = 1
    /\ open # None /\ open[1].el = "relation" /\ "type" \in open[1].keys
    /\ DOMAIN handler.stations[1].other_tags = {"_id", "railway", "name", "ref"}

(***************************************************************************)
(* The rule groups run a second time over the dataset main has loaded, in  *)
(* any order and overlapping: a group begins, and ends at some later time  *)
(* with what the call returns on the dataset as it then is.                *)
(***************************************************************************)
\* the call main makes for a rule group
group_result(name) ==
    CASE name = "verify_uniq_pkpplk" -> verify_uniq_pkpplk(handler.stations)
      [] name = "verify_uniq_names" ->
            IF program = "scripts" THEN verify_uniq_names(handler.stations)
            ELSE legacy_verify_uniq_names(handler.stations)
      [] name = "verify_uniq_ibnr" ->
            IF program = "scripts" THEN verify_uniq_ibnr(handler.stations)
            ELSE legacy_verify_uniq_ibnr(handler.stations)
      [] name = "verify_other_attributes" -> verify_other_attributes(handler.stations)
      [] name = "verify_platforms" ->
            IF program = "scripts"
            THEN verify_platforms(stations_map[1], handler.platforms)
            ELSE legacy_verify_platforms(stations_map[1], handler.platforms)
      [] name = "verify_stop_positions" ->
            verify_stop_positions(stations_map[1], handler.stop_positions)
      [] name = "verify_bus_stops" ->
            verify_bus_stops(stations_map[1], handler.bus_stops)

\* a faulty merge: the result of the group that ended last is the outcome
merge_last(result_ok, ok_so_far) == result_ok

\* ok = verify_...(...) and ok
merge(result_ok, ok_so_far) == result_ok /\ ok_so_far

ended_groups == {r.group : r \in rerun.ended}

BeginGroup ==
    /\ pc = "exited"
    /\ \E name \in Range(group_names(program)) \ rerun.begun :
          rerun' = [rerun EXCEPT !.begun = @ \cup {name}]
    /\ UNCHANGED <<program, open, nchildren, document, handler, pc, stations_map, ok,
                   report, exit_code, traceback, hints_in, hints_out,
                   lookup_by_pkpplk, lookup_by_ibnr>>

EndGroup ==
    /\ pc = "exited"
    /\ \E name \in rerun.begun \ ended_groups :
          LET result == group_result(name) IN
          rerun' = [rerun EXCEPT
                       !.ended = @ \cup {[group |-> name, ok |-> result.ok,
                                          out |-> result.out]},
                       !.ok = merge(result.ok, @)]
    /\ UNCHANGED <<program, open, nchildren, document, handler, pc, stations_map, ok,
                   report, exit_code, traceback, hints_in, hints_out,
                   lookup_by_pkpplk, lookup_by_ibnr>>

\* documents with one or two stations and at most one other entity
LoadSmallDocument ==
    /\ pc = "parsing"
    /\ \E second \in SecondStations :
       \E entities \in {<<>>} \cup {<<e>> : e \in EntityChoices} :
          LoadAll(entity_document(second, entities))

SpecAnyOrder == Init /\ [][LoadSmallDocument \/ Run \/ BeginGroup \/ EndGroup]_vars

tags_read(node) ==
    [k \in node.keys \cup {"_id"} |->
        IF k = "_id" THEN node.id
        ELSE IF k = "railway" THEN node.railway[1]
        ELSE IF k = "public_transport" THEN node.public_transport[1]
        ELSE (CHOOSE kv \in NodeTags : kv[1] = k)[2]]

\* the position the file gives the node with this id
position_of(id) ==
    <<float(lat_attr(digits_value(id))), float(lon_attr(digits_value(id)))>>

node_is_open == pc = "parsing" /\ open # None /\ open[1].el = "node"

\* C19: while a node is open, to the moment it closes and is classified, the
\* attribute map holds the node's id and the tags read since it opened and
\* nothing else, and the position held is the one given at its opening; every
\* entity made has the position given to the node of its id.
C19_OwnTagsAndPosition ==
    /\ node_is_open =>
          /\ handler.tags = tags_read(open[1])
          /\ program = "scripts" => handler.position = position_of(open[1].id)
    /\ (program = "scripts" /\ pc = "parsing") =>
          \A n \in list_names :
              \A g \in DOMAIN entity_lists(handler)[n] :
                  \A i \in DOMAIN entity_lists(handler)[n][g].val :
                      entity_lists(handler)[n][g].val[i].position
                      = position_of(entity_lists(handler)[n][g].val[i].id)

\* a bus stop node is open after a station node has closed: the map holds
\* the bus stop's own tag only and the position is the second node's
C19_SecondNodeOwnTags ==
    /\ program = "scripts" /\ node_is_open
    /\ Len(handler.stations) = 1 /\ handler.stations[1].id = "1"
    /\ open[1].id = "2"
    /\ handler.tags = ("_id" :> "2" @@ "highway" :> "bus_stop")
    /\ handler.position = <<F(520002), F(210000)>>

\* C20: the step that closes a way leaves the stations, platforms, stop
\* positions and bus stops as they are; it leaves the set of dangling nodes
\* as it is unless the way is a rail way, and then takes from the set the
\* ids of the way's own nd list and no other.
C20_WayCloseFrame ==
    [][(pc = "parsing" /\ open # None /\ open[1].el = "way" /\ open' = None) =>
          /\ entity_lists(handler') = entity_lists(handler)
          /\ program = "scripts" =>
                handler'.dangling_nodes
                = IF open[1].railway = Some("rail")
                  THEN handler.dangling_nodes \ Range(open[1].nds)
                  ELSE handler.dangling_nodes]_vars

\* a rail way over the nodes 2 and 1 has closed after the stop position 1:
\* the stop position is there and dangles no more
C20_RailWayOverTwoNodes ==
    /\ program = "scripts" /\ pc = "parsing" /\ open = None
    /\ Len(document) = 2
    /\ document[2].el = "way" /\ document[2].railway = Some("rail")
    /\ document[2].nds = <<"2", "1">>
    /\ Len(handler.stop_positions) = 1
    /\ handler.stop_positions[1].val[1].id = "1"
    /\ handler.dangling_nodes = {}

\* the list a closing node is to go to, by the tags the file gave it
kind_of(node) ==
    IF node.railway = Some("station") THEN "stations"
    ELSE IF node.public_transport = Some("platform") THEN "platforms"
    ELSE IF program = "legacy" THEN "none"
    ELSE IF node.public_transport = Some("stop_position") THEN "stop_positions"
    ELSE IF "highway" \in node.keys THEN "bus_stops"
    ELSE "none"

\* the ids of the entities of one list
list_ids(h, n) ==
    UNION {{entity_lists(h)[n][g].val[i].id : i \in DOMAIN entity_lists(h)[n][g].val} :
              g \in DOMAIN entity_lists(h)[n]}

\* the step in which endElement is called for the open node: the node is
\* closed, or the call raises KeyError and the process ends
node_closes ==
    /\ pc = "parsing" /\ open # None /\ open[1].el = "node"
    /\ open' = None \/ traceback' = "KeyError"

\* C21: the step that closes a node makes at most one entity, in the list the
\* precedence station, platform, stop position, bus stop gives for the
\* node's tags, and none when no such tag is there; the node's id goes into
\* the set of dangling nodes exactly when the precedence gives station or
\* stop position, and no other step puts an id into the set.
C21_OneEntityByPrecedence ==
    [][IF node_closes
       THEN /\ \A n \in list_names :
                   /\ list_ids(handler', n) \ list_ids(handler, n)
                          \subseteq {open[1].id}
                   /\ n # kind_of(open[1]) =>
                          list_ids(handler', n) = list_ids(handler, n)
            /\ pc' = "parsing" /\ kind_of(open[1]) # "none" =>
                   open[1].id \in list_ids(handler', kind_of(open[1]))
            /\ program = "scripts" =>
                   handler'.dangling_nodes
                   = IF kind_of(open[1]) \in {"stations", "stop_positions"}
                     THEN handler.dangling_nodes \cup {open[1].id}
                     ELSE handler.dangling_nodes
       ELSE program = "scripts" =>
                handler'.dangling_nodes \subseteq handler.dangling_nodes]_vars

\* a node tagged as a station and as a platform has closed: a station was
\* made of it and no platform
C21_StationBeforePlatform ==
    /\ program = "scripts" /\ pc = "parsing" /\ open = None
    /\ Len(document) = 1
    /\ document[1].railway = Some("station")
    /\ document[1].public_transport = Some("platform")
    /\ Len(handler.stations) = 1 /\ handler.stations[1].id = "1"
    /\ handler.platforms = <<>>
    /\ handler.dangling_nodes = {"1"}

====
